---- MODULE Spec2Model ----
(***************************************************************************)
(* Carbon accounting of carbon-dashboard/app.py: the reference-data        *)
(* resolvers with their module-level caches, do_accounting, and the submit *)
(* handler of the dashboard tab that calls it and sums the two ledgers.    *)
(*                                                                         *)
(* Representation.                                                         *)
(*  - A Python value that may be None is a sequence of length 0 or 1:      *)
(*    None is << >>, the value x is <<x>>.  A Firestore reference field    *)
(*    (formulation, customer, vehicle, supplier) is the list of references *)
(*    the code indexes with [0]["id"]: << >> or <<[id |-> "truck"]>>.       *)
(*  - Stored factors are decimal numbers, kept as integers scaled by 10    *)
(*    (percent carbon, density, carbon content, vehicle rate) or by 100    *)
(*    (diesel factor).  The ledgers of the script run carry the amounts    *)
(*    the formulas denote, as integers in units of 1/3,000,000 ton, in     *)
(*    which every division of the code is exact on the stored values.      *)
(*    The floats Python computes for a retired row (lines 101-109) are     *)
(*    modelled bit for bit in a specification of their own, SpecFloats.    *)
(*  - A timestamp is an aware datetime: the seconds since the epoch that   *)
(*    its wall clock shows in its own zone, and that zone's offset from    *)
(*    UTC in seconds.  A calendar date is a day number (days since the     *)
(*    epoch).                                                              *)
(*  - A collection path f"{prefix}/customers" is the tuple of its parts.   *)
(***************************************************************************)
EXTENDS Integers, Sequences, FiniteSets, TLC

VARIABLES
    pc,                 \* position of the script run
    site,               \* query_site of the submitted form
    start_date,         \* window start (instant)
    end_date,           \* window end (instant)
    delivered_orders,   \* result of the orders query (line 96)
    inputs,             \* result of the inputs query (line 123)
    carbon_costs,       \* result of the carbon-costs query (line 138)
    i,                  \* index of the next document of the running loop
    carbon_retired,     \* do_accounting's local ledger
    carbon_released,    \* do_accounting's local ledger
    tons_co2,           \* do_accounting's local tons_co2 (None while unbound)
    formulation_cache,  \* module-level caches
    customer_cache,
    supplier_cache,
    error,              \* the exception that ended the run (None: none)
    raisedAt,           \* where it was raised: [line, phase, id] (history)
    returned,           \* what the submit handler received from do_accounting
    metrics,            \* gross_carbon_offset / net_carbon_offset of the handler
    last_call,          \* result of the last direct resolver call
    last_query,         \* the collection the last query read and its documents (history)
    floats              \* the locals of lines 101-109 as Python floats

vars == <<pc, site, start_date, end_date, delivered_orders, inputs, carbon_costs,
          i, carbon_retired, carbon_released, tons_co2, formulation_cache,
          customer_cache, supplier_cache, error, raisedAt, returned, metrics,
          last_call, last_query, floats>>

----------------------------------------------------------------------------
(* Bounds of the model *)

MaxOrders == 1
MaxInputs == 1
MaxCosts == 1
MaxProd == 1
MaxEighths == 16    \* production quantities are 0 .. MaxEighths eighths of 1000 L

----------------------------------------------------------------------------
(* Python values *)

None == << >>
Some(x) == <<x>>

\* bool(x) is False for None and for 0
Falsy(x) == x = None \/ x = Some(0)

EmptyDict == [k \in {} |-> None]

\* d.get(key) of a dict; key may itself be None
DictGet(d, key) ==
    IF key # None /\ key[1] \in DOMAIN d THEN Some(d[key[1]]) ELSE None

DictSet(d, k, v) == [x \in DOMAIN d \cup {k} |-> IF x = k THEN v ELSE d[x]]

\* field[0]["id"] if field else None
RefId(field) == IF field = << >> THEN None ELSE Some(field[1].id)

SeqsUpTo(S, n) == UNION {[1..k -> S] : k \in 0..n}

----------------------------------------------------------------------------
(* The database the script reads: constants and reference data *)

SiteNames == {"mock-site", "s1"}

MockPrefix == <<"test", "mock-site">>

\* f"sites/{site}" if site != "mock-site" else "test/mock-site"
CollectionPathPrefix(s) == IF s # "mock-site" THEN <<"sites", s>> ELSE MockPrefix

Prefixes == {CollectionPathPrefix(s) : s \in SiteNames}

\* constants/global: rates in 0.1 kgCO2/km, diesel in 0.01 kgCO2/L
GlobalConstants ==
    [transportKgCO2PerKm |-> [v \in {"truck", "van"} |-> IF v = "truck" THEN 9 ELSE 0],
     dieselKgCO2PerL |-> 268]

\* constants/<site>: density in 0.1 kg/L, carbon content in 0.1, g CO2 per kWh
SiteConstants(s) ==
    IF s = "mock-site"
    THEN [biocharDensityKgPerL |-> 12, biocharCarbonContent |-> 8, gramsCO2PerKWh |-> 400]
    ELSE [biocharDensityKgPerL |-> 10, biocharCarbonContent |-> 9, gramsCO2PerKWh |-> 500]

\* formulations/<name>: the documents that exist ("Biochar" in 0.1)
Formulations == [f \in {"F1"} |-> [Biochar |-> 3]]

FormulationNames == {"F1", "F0"}

\* <prefix>/customers: the documents that exist, each with its "distance" field
Customers(prefix) ==
    IF prefix = MockPrefix
    THEN [c \in {"c1", "c3"} |-> [distance |-> IF c = "c1" THEN Some(50) ELSE None]]
    ELSE [c \in {"c1", "c2", "c3"} |->
             [distance |-> IF c = "c1" THEN Some(70)
                           ELSE IF c = "c2" THEN Some(20) ELSE Some(0)]]

CustomerIds == {"DEC", "c1", "c2", "c3"}

\* <prefix>/suppliers
Suppliers(prefix) ==
    IF prefix = MockPrefix
    THEN [s \in {"s1", "s3"} |-> [distance |-> IF s = "s1" THEN Some(30) ELSE None]]
    ELSE [s \in {"s1", "s3"} |-> [distance |-> IF s = "s1" THEN Some(40) ELSE Some(0)]]

SupplierIds == {"s1", "s2", "s3"}

\* db.collection(path).document(id).get().to_dict(): None when there is no document
ToDict(collection, id) == IF id \in DOMAIN collection THEN Some(collection[id]) ELSE None

----------------------------------------------------------------------------
(* Exceptions *)

Exception(type, text, args) == [type |-> type, text |-> text, args |-> args]

\* None.get(...), None[0]: what Python raises when the code dereferences None
AttributeError == Exception("AttributeError", "'NoneType' object has no attribute 'get'", << >>)
TypeError == Exception("TypeError", "unsupported operand type(s)", << >>)
UnboundLocalError == Exception("UnboundLocalError", "local variable 'tons_co2' referenced before assignment", << >>)

\* line 118
OrderMissingDataError(order) ==
    Exception("ValueError",
              "Order {} is missing vehicle, transportation cost constant, or customer distance",
              <<order.orderNumber>>)

\* line 128
InputMissingSupplierError(id) ==
    Exception("ValueError", "Input is missing a supplier", << >>)

\* line 133
InputMissingDataError(id) ==
    Exception("ValueError",
              "An Input is missing vehicle, transportation cost constant, or supplier/supplier distance",
              << >>)

----------------------------------------------------------------------------
(* Reference-data resolvers: each returns [raised, value, cache] *)

Resolved(v, cache) == [raised |-> None, value |-> v, cache |-> cache]
Raised(exc, cache) == [raised |-> Some(exc), value |-> None, cache |-> cache]

get_formulation_with_default(cache, formulation_name) ==
    IF formulation_name \in DOMAIN cache
    THEN [raised |-> None, value |-> cache[formulation_name], cache |-> cache]
    ELSE LET formulation == IF formulation_name \in DOMAIN Formulations
                            THEN Some(Formulations[formulation_name])
                            ELSE Some([Biochar |-> 0])
         IN [raised |-> None, value |-> formulation,
             cache |-> DictSet(cache, formulation_name, formulation)]

\* get_formulation: caches and returns the document, None included
get_formulation(cache, formulation_name) ==
    IF formulation_name \in DOMAIN cache
    THEN Resolved(cache[formulation_name], cache)
    ELSE LET formulation == ToDict(Formulations, formulation_name)
         IN Resolved(formulation, DictSet(cache, formulation_name, formulation))

\* the key under which a distance is cached
CacheKey(collection_prefix, id) == id

\* shared body of get_customer_distance / get_supplier_distance
get_distance(cache, collection, collection_prefix, id) ==
    IF CacheKey(collection_prefix, id) \in DOMAIN cache
    THEN Resolved(cache[CacheKey(collection_prefix, id)], cache)
    ELSE LET info == ToDict(collection, id)
         IN IF info = None
            THEN Raised(AttributeError, cache)
            ELSE Resolved(info[1].distance,
                          DictSet(cache, CacheKey(collection_prefix, id), info[1].distance))

get_customer_distance(cache, collection_prefix, customer_id) ==
    get_distance(cache, Customers(collection_prefix), collection_prefix, customer_id)

get_supplier_distance(cache, collection_prefix, supplier_id) ==
    get_distance(cache, Suppliers(collection_prefix), collection_prefix, supplier_id)

----------------------------------------------------------------------------
(* Dates *)

\* an aware datetime
Aware(wall, utcoffset) == [wall |-> wall, utcoffset |-> utcoffset]

\* the point of the UTC time line an aware datetime denotes: what comparisons of
\* aware datetimes, Firestore's range filters and astimezone go by
Instant(dt) == dt.wall - dt.utcoffset

\* datetime.astimezone: the same instant on the wall clock of another zone
astimezone(dt, utcoffset) == Aware(Instant(dt) + utcoffset, utcoffset)

\* pytz.timezone('Etc/GMT-3'): UTC+3 (pytz names zones with the opposite sign)
GMT3 == 3 * 3600

\* pytz's localize: a naive wall-clock time read as a time of the zone
Localize(wall, utcoffset) == Aware(wall, utcoffset)

\* midnight and 23:59:59 of calendar day d, localized to Etc/GMT-3, lines 180-183
DayStart(d) == Localize(d * 86400, GMT3)
DayEnd(d) == Localize(d * 86400 + (23 * 3600 + 59 * 60 + 59), GMT3)

StrftimeDate(dt) == dt.wall \div 86400

convert_to_gmt_minus3(t) == StrftimeDate(astimezone(t, 0 - GMT3))

\* lines 55-61: the calendar date the instant has on the wall clock of UTC+3
convert_to_gmt3(t) == StrftimeDate(astimezone(t, GMT3))

\* the days the two date inputs of the form can be set to
QueryDays(db) == IF db = "dated" THEN {1, 2} ELSE {1}

\* a timestamp some seconds after (before) another, stored in a given zone
Later(dt, seconds, utcoffset) == astimezone(Aware(dt.wall + seconds, dt.utcoffset), utcoffset)

----------------------------------------------------------------------------
(* Record pools the queries draw their collections from *)

Ref(id) == <<[id |-> id]>>

VehicleFields == {<< >>, Ref("truck"), Ref("cart")}

\* A database of records that all match the queries and differ in everything the
\* loops read
OrderPool(s, e) ==
    [status : {"Delivered"}, deliveredDate : {s},
     productionQuantity : {0, 1000},
     formulation : {Ref(f) : f \in FormulationNames},
     customer : {Ref(c) : c \in CustomerIds},
     vehicle : VehicleFields,
     isActivated : BOOLEAN]

InputPool(s, e) ==
    [type : {"Biomass"}, status : {"Obtained"}, deliveryDate : {e},
     supplier : {<< >>} \cup {Ref(x) : x \in SupplierIds},
     vehicle : VehicleFields]

CostPool(s, e) ==
    [type : {"Electricity", "Diesel", "Methane"}, value : {100}, notes : {"n"},
     date : {s}]

ProdPool(s, e) == [endDate : {s}, quantityTons : {Some(5), None}]

\* A database whose documents differ in their dates, their stored zone, their
\* status and their type only: dates one second before the window, at its first
\* and its last second, and one second after it
West == 0 - 5 * 3600

StoredAround(s, e) ==
    {Later(s, 0 - 1, 0), Later(s, 0, 0), Later(e, 0, 0), Later(e, 1, 0)}

DatedOrders(s, e) ==
    [status : {"Delivered", "In Progress"},
     deliveredDate : StoredAround(s, e) \cup {Later(s, 0, West)},
     productionQuantity : {1000},
     formulation : {Ref("F1")}, customer : {Ref("c1")}, vehicle : {Ref("truck")},
     isActivated : {FALSE}]

DatedInputs(s, e) ==
    {d \in [type : {"Biomass", "Additive"}, status : {"Obtained", "Ordered"},
            deliveryDate : StoredAround(s, e) \cup {Later(e, 0, West)},
            supplier : {Ref("s1")}, vehicle : {Ref("truck")}] :
        d.type = "Biomass" \/ d.status = "Obtained"}

DatedCosts(s, e) ==
    [type : {"Electricity"}, value : {100}, notes : {"n"}, date : StoredAround(s, e)]

DatedProd(s, e) ==
    [endDate : StoredAround(s, e), quantityTons : {Some(5)}]

\* A database of complete records whose distances and vehicle rates may be 0
ZeroOrders(s, e) ==
    [status : {"Delivered"}, deliveredDate : {s}, productionQuantity : {1000},
     formulation : {Ref("F1")}, customer : {Ref("c1"), Ref("c3")},
     vehicle : {Ref("truck"), Ref("van")}, isActivated : {FALSE}]

ZeroInputs(s, e) ==
    [type : {"Biomass"}, status : {"Obtained"}, deliveryDate : {e},
     supplier : {Ref("s1"), Ref("s3")}, vehicle : {Ref("truck"), Ref("van")}]

ZeroCosts(s, e) ==
    [type : {"Electricity"}, value : {100}, notes : {"n"}, date : {s}]

ZeroProd(s, e) == [endDate : {s}, quantityTons : {Some(5)}]

\* the documents the collections of database db can hold
Databases == {"mixed", "dated", "zeros"}

Orders(db, s, e) ==
    CASE db = "mixed" -> OrderPool(s, e)
      [] db = "dated" -> DatedOrders(s, e)
      [] db = "zeros" -> ZeroOrders(s, e)

Inputs(db, s, e) ==
    CASE db = "mixed" -> InputPool(s, e)
      [] db = "dated" -> DatedInputs(s, e)
      [] db = "zeros" -> ZeroInputs(s, e)

CarbonCosts(db, s, e) ==
    CASE db = "mixed" -> CostPool(s, e)
      [] db = "dated" -> DatedCosts(s, e)
      [] db = "zeros" -> ZeroCosts(s, e)

BiocharProd(db, s, e) ==
    CASE db = "mixed" -> ProdPool(s, e)
      [] db = "dated" -> DatedProd(s, e)
      [] db = "zeros" -> ZeroProd(s, e)

\* f"{collection_path_prefix}/orders" and the like
CollectionPath(prefix, name) == prefix \o <<name>>

\* what a query read: the collection and the documents it holds
Read(path, raw) == Some([path |-> path, docs |-> raw])

\* the documents of a collection, each under its document id
WithId(raw) == [k \in DOMAIN raw |-> [id |-> k, data |-> raw[k]]]

\* an order carries its number as a field
WithOrderNumber(raw) == [k \in DOMAIN raw |-> [orderNumber |-> k] @@ raw[k]]

InWindowExclusive(t, s, e) == Instant(t) > Instant(s) /\ Instant(t) < Instant(e)

\* .where(field, ">=", start_date).where(field, "<=", end_date)
InWindow(t, s, e) == Instant(t) >= Instant(s) /\ Instant(t) <= Instant(e)

\* line 96
QueryOrders(raw, s, e) ==
    SelectSeq(WithOrderNumber(raw),
              LAMBDA o : o.status = "Delivered" /\ InWindow(o.deliveredDate, s, e))

\* line 123
QueryInputs(raw, s, e) ==
    SelectSeq(WithId(raw),
              LAMBDA d : /\ InWindow(d.data.deliveryDate, s, e)
                         /\ d.data.type = "Biomass"
                         /\ d.data.status = "Obtained")

\* line 138
QueryCosts(raw, s, e) ==
    SelectSeq(WithId(raw), LAMBDA d : InWindow(d.data.date, s, e))

\* line 153
QueryProd(raw, s, e) ==
    SelectSeq(WithId(raw), LAMBDA d : InWindow(d.data.endDate, s, e))

----------------------------------------------------------------------------
(* Python floats.  A float is an IEEE 754 binary64 number; the amounts of a
   retired row are positive or zero and far from the ends of the exponent range,
   so a float is modelled as zero or a 53-bit significand m and an exponent e,
   with value m * 2^e.  Significands and exact intermediate results are natural
   numbers written in limbs of 15 bits, least significant limb first, without
   leading zero limbs; zero is << >>. *)

Limb == 2^15

\* the hidden bit and the 52 stored bits
SignificandBits == 1 + 52

RECURSIVE BigNorm(_)
BigNorm(a) ==
    IF a = << >> THEN a
    ELSE IF a[Len(a)] = 0 THEN BigNorm(SubSeq(a, 1, Len(a) - 1)) ELSE a

RECURSIVE BigFromInt(_)
BigFromInt(n) == IF n = 0 THEN << >> ELSE <<n % Limb>> \o BigFromInt(n \div Limb)

RECURSIVE BigAddCarry(_, _, _)
BigAddCarry(a, b, carry) ==
    IF a = << >> /\ b = << >>
    THEN IF carry = 0 THEN << >> ELSE <<carry>>
    ELSE LET x == (IF a = << >> THEN 0 ELSE Head(a))
                  + (IF b = << >> THEN 0 ELSE Head(b)) + carry
         IN <<x % Limb>> \o BigAddCarry(IF a = << >> THEN a ELSE Tail(a),
                                        IF b = << >> THEN b ELSE Tail(b),
                                        x \div Limb)

BigAdd(a, b) == BigAddCarry(a, b, 0)

RECURSIVE BigMulLimbCarry(_, _, _)
BigMulLimbCarry(a, k, carry) ==
    IF a = << >>
    THEN IF carry = 0 THEN << >> ELSE <<carry>>
    ELSE LET x == Head(a) * k + carry
         IN <<x % Limb>> \o BigMulLimbCarry(Tail(a), k, x \div Limb)

\* a times a number below Limb
BigMulLimb(a, k) == IF k = 0 THEN << >> ELSE BigMulLimbCarry(a, k, 0)

BigShiftLimb(a) == IF a = << >> THEN a ELSE <<0>> \o a

RECURSIVE BigMul(_, _)
BigMul(a, b) ==
    IF b = << >> THEN << >>
    ELSE BigAdd(BigMulLimb(a, Head(b)), BigShiftLimb(BigMul(a, Tail(b))))

\* quotient and remainder of a by a positive number below Limb
RECURSIVE BigDivLimbRaw(_, _)
BigDivLimbRaw(a, d) ==
    IF a = << >> THEN [q |-> << >>, r |-> 0]
    ELSE LET hi == BigDivLimbRaw(Tail(a), d)
             x == hi.r * Limb + Head(a)
         IN [q |-> <<x \div d>> \o hi.q, r |-> x % d]

BigDivLimb(a, d) ==
    LET raw == BigDivLimbRaw(a, d) IN [q |-> BigNorm(raw.q), r |-> raw.r]

RECURSIVE BigCmpFrom(_, _, _)
BigCmpFrom(a, b, k) ==
    IF k = 0 THEN 0
    ELSE IF a[k] < b[k] THEN 0 - 1
    ELSE IF a[k] > b[k] THEN 1
    ELSE BigCmpFrom(a, b, k - 1)

\* -1, 0 or 1 as a is below, equal to or above b
BigCmp(a, b) ==
    IF Len(a) < Len(b) THEN 0 - 1
    ELSE IF Len(a) > Len(b) THEN 1
    ELSE BigCmpFrom(a, b, Len(a))

RECURSIVE IntBitLength(_)
IntBitLength(n) == IF n = 0 THEN 0 ELSE 1 + IntBitLength(n \div 2)

BigBitLength(a) ==
    IF a = << >> THEN 0 ELSE 15 * (Len(a) - 1) + IntBitLength(a[Len(a)])

BigPow2(j) == [k \in 1..(j \div 15) |-> 0] \o <<2^(j % 15)>>

BigShl(a, j) == BigMul(a, BigPow2(j))

BigShr(a, j) == BigDivLimb(SubSeq(a, (j \div 15) + 1, Len(a)), 2^(j % 15)).q

Float(m, e) == [m |-> m, e |-> e]

FloatZero == Float(<< >>, 0)

\* The float nearest to (n + f) * 2^e, ties to the even significand, where f = 0
\* if ~sticky and 0 < f < 1 otherwise; with sticky, n has more than 54 bits
FloatRound(n, e, sticky) ==
    LET len == BigBitLength(n)
    IN IF n = << >> THEN FloatZero
       ELSE IF len <= SignificandBits
       THEN Float(BigShl(n, SignificandBits - len), e - (SignificandBits - len))
       ELSE
       LET k == len - SignificandBits
           q == BigShr(n, k)
           half == BigAdd(BigShl(q, k), BigPow2(k - 1))
           c == BigCmp(n, half)
           up == c = 1 \/ (c = 0 /\ (sticky \/ q[1] % 2 = 1))
           q1 == IF up THEN BigAdd(q, <<1>>) ELSE q
       IN IF BigBitLength(q1) > SignificandBits
          THEN Float(BigShr(q1, 1), e + k + 1)
          ELSE Float(q1, e + k)

\* float(n) of a Python int below 2^31
FloatFromInt(n) == FloatRound(BigFromInt(n), 0, FALSE)

\* x * y
FloatMul(x, y) == FloatRound(BigMul(x.m, y.m), x.e + y.e, FALSE)

\* x / d for a positive int d below Limb
FloatDivInt(x, d) ==
    LET qr == BigDivLimb(BigShl(x.m, 30), d)
    IN FloatRound(qr.q, x.e - 30, qr.r # 0)

\* the float a stored decimal number n / 10 reads as
FloatFromTenths(n) == FloatDivInt(FloatFromInt(n), 10)

\* the sign of x - y, as real numbers
FloatCmp(x, y) ==
    IF x.m = << >> \/ y.m = << >> THEN BigCmp(x.m, y.m)
    ELSE LET low == IF x.e < y.e THEN x.e ELSE y.e
         IN BigCmp(BigShl(x.m, x.e - low), BigShl(y.m, y.e - low))

----------------------------------------------------------------------------
(* Formulas of do_accounting *)

\* one ton in ledger units
TonUnits == 3 * 1000000

\* lines 102-106: quantity * percent * density / 1000 * content, the three stored
\* factors scaled by 10 each; in ledger units
TonsCarbon(order, percent_carbon, sc) ==
    order.productionQuantity * percent_carbon * sc.biocharDensityKgPerL
       * sc.biocharCarbonContent * (TonUnits \div (10 * 10 * 10 * 1000))

\* line 107: tons_carbon * (44/12)
TonsCO2(tons_carbon) == (tons_carbon * 44) \div 12

\* lines 119 and 134: (transport_cost * distance) / 1000, the rate scaled by 10
TonsTransport(transport_cost, distance) ==
    transport_cost * distance * (TonUnits \div (10 * 1000))

\* line 146: (qty * gramsCO2PerKWh) / 1000000
TonsElectricity(qty, gramsCO2PerKWh) == qty * gramsCO2PerKWh * (TonUnits \div 1000000)

\* line 149: (qty * dieselKgCO2PerL) / 1000, the factor scaled by 100
TonsDiesel(qty, dieselKgCO2PerL) == qty * dieselKgCO2PerL * (TonUnits \div (100 * 1000))

EmitsRetiredRowAtZero(co2) == co2 >= 0

\* line 108
EmitsRetiredRow(co2) == co2 > 0

NeedsTransportAlsoForDEC(order, customer) == ~order.isActivated

\* line 113
NeedsTransport(order, customer) == ~order.isActivated /\ customer # "DEC"

OrderTransportMissingBoth(transport_cost, customer_distance) ==
    transport_cost = None /\ customer_distance = None

\* line 117
OrderTransportMissing(transport_cost, customer_distance) ==
    transport_cost = None \/ customer_distance = None

InputSupplierNeverMissing(input) == FALSE

\* line 127
InputSupplierMissing(input) == input.supplier = << >>

InputTransportMissingIsNone(transport_cost, supplier_distance) ==
    transport_cost = None \/ supplier_distance = None

\* line 132
InputTransportMissing(transport_cost, supplier_distance) ==
    Falsy(transport_cost) \/ Falsy(supplier_distance)

----------------------------------------------------------------------------
(* The amounts of a retired row as Python computes them, lines 101-109 *)

\* line 101: the "Biochar" field of the formulation, a stored decimal
FloatPercentCarbon(formulation) == FloatFromTenths(formulation.Biochar)

\* line 102: int * float
FloatProdQtyBiochar(order, percent_carbon) ==
    FloatMul(FloatFromInt(order.productionQuantity), percent_carbon)

\* lines 103, 105
FloatTonsBiochar(prod_qty_biochar, sc) ==
    FloatDivInt(FloatMul(prod_qty_biochar, FloatFromTenths(sc.biocharDensityKgPerL)),
                1000)

\* lines 104, 106
FloatTonsCarbon(tons_biochar, sc) ==
    FloatMul(tons_biochar, FloatFromTenths(sc.biocharCarbonContent))

FloatTonsCO2Inverse(tons_carbon) ==
    FloatMul(tons_carbon, FloatDivInt(FloatFromInt(12), 44))

\* line 107: tons_carbon * (44/12), the quotient being a float itself
FloatTonsCO2(tons_carbon) ==
    FloatMul(tons_carbon, FloatDivInt(FloatFromInt(44), 12))

\* line 108
FloatPositive(x) == x.m # << >>

----------------------------------------------------------------------------
(* Ledger rows *)

RetiredRow(order, tons_carbon, co2) ==
    [OrderNo |-> order.orderNumber, Date |-> order.deliveredDate,
     TonsCarbon |-> tons_carbon, TonsCO2eq |-> co2]

ReleasedRow(id, type, date, co2) ==
    [RowID |-> id, Type |-> type, Date |-> date, TonsCO2eq |-> co2]

RawBiocharTransport == <<"Raw Biochar Transport">>
BiomassTransport == <<"Biomass Transport">>

\* f"{cost.get('type')}: {cost.get('notes')}"
CostLabel(cost) == <<cost.type, ": ", cost.notes>>

\* lines 158-159
ConvertDates(ledger) ==
    [k \in DOMAIN ledger |-> [ledger[k] EXCEPT !.Date = convert_to_gmt3(@)]]

----------------------------------------------------------------------------
(* One iteration of each loop of do_accounting, as the values it leaves behind:
   exc/line are the exception raised and its line, None when the iteration ends *)

Step(exc, line, retired, released, co2, fcache, ccache, scache) ==
    [exc |-> exc, line |-> line, retired |-> retired, released |-> released,
     tons_co2 |-> co2, fcache |-> fcache, ccache |-> ccache, scache |-> scache]

\* lines 111-121: the transport part of an order's iteration
OrderTransport(order, prefix, retired, released, co2, fcache, ccache, scache) ==
    LET customer == order.customer[1].id
    IN IF ~NeedsTransport(order, customer)
       THEN Step(None, 0, retired, released, co2, fcache, ccache, scache)
       ELSE
       LET cd == get_customer_distance(ccache, prefix, customer)
           vehicle == RefId(order.vehicle)
           transport_cost == DictGet(GlobalConstants.transportKgCO2PerKm, vehicle)
       IN IF cd.raised # None
          THEN Step(cd.raised, 42, retired, released, co2, fcache, ccache, scache)
          ELSE IF OrderTransportMissing(transport_cost, cd.value)
          THEN Step(Some(OrderMissingDataError(order)), 118,
                    retired, released, co2, fcache, cd.cache, scache)
          ELSE IF transport_cost = None \/ cd.value = None  \* None * x raises
          THEN Step(Some(TypeError), 119, retired, released, co2, fcache, cd.cache, scache)
          ELSE Step(None, 0, retired,
                    Append(released,
                           ReleasedRow(order.orderNumber, RawBiocharTransport,
                                       order.deliveredDate,
                                       TonsTransport(transport_cost[1], cd.value[1]))),
                    co2, fcache, cd.cache, scache)

\* lines 98-121
OrderStep(order, s, prefix, retired, released, co2, fcache, ccache, scache) ==
    LET formulation_name == order.formulation[1].id
        f == get_formulation(fcache, formulation_name)
    IN IF f.value = None
       THEN Step(Some(AttributeError), 101, retired, released, co2, f.cache, ccache, scache)
       ELSE
       LET percent_carbon == f.value[1].Biochar
           tons_carbon == TonsCarbon(order, percent_carbon, SiteConstants(s))
           new_co2 == TonsCO2(tons_carbon)
           retired1 == IF EmitsRetiredRow(new_co2)
                       THEN Append(retired, RetiredRow(order, tons_carbon, new_co2))
                       ELSE retired
       IN OrderTransport(order, prefix, retired1, released, Some(new_co2),
                         f.cache, ccache, scache)

\* lines 125-136
InputStep(doc, prefix, retired, released, co2, fcache, ccache, scache) ==
    LET input == doc.data
    IN IF InputSupplierMissing(input)
       THEN Step(Some(InputMissingSupplierError(doc.id)), 128,
                 retired, released, co2, fcache, ccache, scache)
       ELSE IF input.supplier = << >>  \* None[0] raises
       THEN Step(Some(TypeError), 129, retired, released, co2, fcache, ccache, scache)
       ELSE
       LET sd == get_supplier_distance(scache, prefix, input.supplier[1].id)
           vehicle == RefId(input.vehicle)
           transport_cost == DictGet(GlobalConstants.transportKgCO2PerKm, vehicle)
       IN IF sd.raised # None
          THEN Step(sd.raised, 52, retired, released, co2, fcache, ccache, scache)
          ELSE IF InputTransportMissing(transport_cost, sd.value)
          THEN Step(Some(InputMissingDataError(doc.id)), 133,
                    retired, released, co2, fcache, ccache, sd.cache)
          ELSE IF transport_cost = None \/ sd.value = None  \* None * x raises
          THEN Step(Some(TypeError), 134, retired, released, co2, fcache, ccache, sd.cache)
          ELSE Step(None, 0, retired,
                    Append(released,
                           ReleasedRow(doc.id, BiomassTransport, input.deliveryDate,
                                       TonsTransport(transport_cost[1], sd.value[1]))),
                    co2, fcache, ccache, sd.cache)

\* lines 144-149: tons_co2 after the if/elif; it keeps its value when no branch runs
CostTonsCO2(cost, s, co2) ==
    IF cost.type = "Electricity"
    THEN Some(TonsElectricity(cost.value, SiteConstants(s).gramsCO2PerKWh))
    ELSE IF cost.type = "Diesel"
    THEN Some(TonsDiesel(cost.value, GlobalConstants.dieselKgCO2PerL))
    ELSE co2

CostStepSkipsUnlisted(doc, s, retired, released, co2, fcache, ccache, scache) ==
    LET cost == doc.data
        new_co2 == CostTonsCO2(cost, s, co2)
    IN IF cost.type \notin {"Electricity", "Diesel"}
       THEN Step(None, 0, retired, released, co2, fcache, ccache, scache)
       ELSE Step(None, 0, retired,
                 Append(released, ReleasedRow(doc.id, CostLabel(cost), cost.date, new_co2[1])),
                 new_co2, fcache, ccache, scache)

\* lines 140-151
CostStep(doc, s, retired, released, co2, fcache, ccache, scache) ==
    LET cost == doc.data
        new_co2 == CostTonsCO2(cost, s, co2)
    IN IF new_co2 = None
       THEN Step(Some(UnboundLocalError), 150, retired, released, co2, fcache, ccache, scache)
       ELSE Step(None, 0, retired,
                 Append(released, ReleasedRow(doc.id, CostLabel(cost), cost.date, new_co2[1])),
                 new_co2, fcache, ccache, scache)

\* lines 154-157: None when a record has no quantityTons (0 + None raises)
RECURSIVE TotalProd(_)
TotalProd(records) ==
    IF records = << >> THEN Some(0)
    ELSE LET rest == TotalProd(Tail(records))
             q == Head(records).data.quantityTons
         IN IF q = None \/ rest = None THEN None ELSE Some(q[1] + rest[1])

\* df["Tons CO2eq"].sum(): 0 for an empty frame
RECURSIVE SumCO2eq(_)
SumCO2eq(ledger) ==
    IF ledger = << >> THEN 0 ELSE Head(ledger).TonsCO2eq + SumCO2eq(Tail(ledger))

SummaryAddsReleased(retired, released) ==
    LET gross_carbon_offset == SumCO2eq(retired)
    IN [gross_carbon_offset |-> gross_carbon_offset,
        net_carbon_offset |-> gross_carbon_offset + SumCO2eq(released)]

\* lines 185-186
Summary(retired, released) ==
    LET gross_carbon_offset == SumCO2eq(retired)
    IN [gross_carbon_offset |-> gross_carbon_offset,
        net_carbon_offset |-> gross_carbon_offset - SumCO2eq(released)]

UncaughtKeepsLedgers(retired, released) ==
    Some([carbon_retired |-> retired, carbon_released |-> released,
          total_biochar_prod |-> 0])

\* line 184: do_accounting has no handler and neither has its caller, so an
\* exception leaves the handler before the assignment: it receives nothing
Uncaught(retired, released) == None

----------------------------------------------------------------------------
(* The script run *)

Init ==
    /\ pc = "idle"
    /\ site = None
    /\ start_date = None
    /\ end_date = None
    /\ delivered_orders = << >>
    /\ inputs = << >>
    /\ carbon_costs = << >>
    /\ i = 1
    /\ carbon_retired = << >>
    /\ carbon_released = << >>
    /\ tons_co2 = None
    /\ formulation_cache = EmptyDict
    /\ customer_cache = EmptyDict
    /\ supplier_cache = EmptyDict
    /\ error = None
    /\ raisedAt = None
    /\ returned = None
    /\ metrics = None
    /\ last_call = None
    /\ last_query = None
    /\ floats = None

Prefix == CollectionPathPrefix(site[1])

\* an exception leaves do_accounting and the submit handler
Raise(st, phase, id) ==
    /\ pc' = "failed"
    /\ error' = st.exc
    /\ raisedAt' = Some([line |-> st.line, phase |-> phase, id |-> id])
    /\ returned' = Uncaught(st.retired, st.released)
    /\ i' = i

\* the values an iteration leaves in the locals and the caches
Leave(st) ==
    /\ carbon_retired' = st.retired
    /\ carbon_released' = st.released
    /\ tons_co2' = st.tons_co2
    /\ formulation_cache' = st.fcache
    /\ customer_cache' = st.ccache
    /\ supplier_cache' = st.scache

\* The form is submitted: the handler builds the window (lines 180-183) and calls
\* do_accounting, which runs up to the orders query (lines 91-96).
SubmitOn(db) ==
    /\ pc = "idle"
    /\ \E query_site \in SiteNames, d1 \in QueryDays(db), d2 \in QueryDays(db) :
         LET s == DayStart(d1)
             e == DayEnd(d2)
         IN \E raw \in SeqsUpTo(Orders(db, s, e), MaxOrders) :
               /\ site' = Some(query_site)
               /\ start_date' = Some(s)
               /\ end_date' = Some(e)
               /\ delivered_orders' = QueryOrders(raw, s, e)
               /\ last_query' = Read(CollectionPath(CollectionPathPrefix(query_site),
                                                    "orders"), raw)
    /\ pc' = "orders"
    /\ i' = 1
    /\ inputs' = << >>
    /\ carbon_costs' = << >>
    /\ carbon_retired' = << >>
    /\ carbon_released' = << >>
    /\ tons_co2' = None
    /\ formulation_cache' = EmptyDict
    /\ customer_cache' = EmptyDict
    /\ supplier_cache' = EmptyDict
    /\ error' = None
    /\ raisedAt' = None
    /\ returned' = None
    /\ metrics' = None
    /\ UNCHANGED <<last_call, floats>>

\* one iteration of the loop of line 97
ProcessOrder ==
    /\ pc = "orders"
    /\ i <= Len(delivered_orders)
    /\ LET order == delivered_orders[i]
           st == OrderStep(order, site[1], Prefix, carbon_retired, carbon_released,
                           tons_co2, formulation_cache, customer_cache, supplier_cache)
       IN /\ Leave(st)
          /\ IF st.exc # None
             THEN Raise(st, "orders", order.orderNumber)
             ELSE /\ i' = i + 1
                  /\ UNCHANGED <<pc, error, raisedAt, returned>>
    /\ UNCHANGED <<site, start_date, end_date, delivered_orders, inputs, carbon_costs,
                   metrics, last_call, last_query, floats>>

\* the loop of line 97 ends; the inputs query, line 123
FetchInputsOn(db) ==
    /\ pc = "orders"
    /\ i > Len(delivered_orders)
    /\ \E raw \in SeqsUpTo(Inputs(db, start_date[1], end_date[1]), MaxInputs) :
          /\ inputs' = QueryInputs(raw, start_date[1], end_date[1])
          /\ last_query' = Read(CollectionPath(Prefix, "inputs"), raw)
    /\ pc' = "inputs"
    /\ i' = 1
    /\ UNCHANGED <<site, start_date, end_date, delivered_orders, carbon_costs,
                   carbon_retired, carbon_released, tons_co2, formulation_cache,
                   customer_cache, supplier_cache, error, raisedAt, returned, metrics,
                   last_call, floats>>

\* one iteration of the loop of line 124
ProcessInput ==
    /\ pc = "inputs"
    /\ i <= Len(inputs)
    /\ LET st == InputStep(inputs[i], Prefix, carbon_retired, carbon_released,
                           tons_co2, formulation_cache, customer_cache, supplier_cache)
       IN /\ Leave(st)
          /\ IF st.exc # None
             THEN Raise(st, "inputs", inputs[i].id)
             ELSE /\ i' = i + 1
                  /\ UNCHANGED <<pc, error, raisedAt, returned>>
    /\ UNCHANGED <<site, start_date, end_date, delivered_orders, inputs, carbon_costs,
                   metrics, last_call, last_query, floats>>

\* the loop of line 124 ends; the carbon-costs query, line 138
FetchCostsOn(db) ==
    /\ pc = "inputs"
    /\ i > Len(inputs)
    /\ \E raw \in SeqsUpTo(CarbonCosts(db, start_date[1], end_date[1]), MaxCosts) :
          /\ carbon_costs' = QueryCosts(raw, start_date[1], end_date[1])
          /\ last_query' = Read(CollectionPath(Prefix, "carbon-costs"), raw)
    /\ pc' = "costs"
    /\ i' = 1
    /\ UNCHANGED <<site, start_date, end_date, delivered_orders, inputs,
                   carbon_retired, carbon_released, tons_co2, formulation_cache,
                   customer_cache, supplier_cache, error, raisedAt, returned, metrics,
                   last_call, floats>>

\* one iteration of the loop of line 139
ProcessCost ==
    /\ pc = "costs"
    /\ i <= Len(carbon_costs)
    /\ LET st == CostStep(carbon_costs[i], site[1], carbon_retired, carbon_released,
                          tons_co2, formulation_cache, customer_cache, supplier_cache)
       IN /\ Leave(st)
          /\ IF st.exc # None
             THEN Raise(st, "costs", carbon_costs[i].id)
             ELSE /\ i' = i + 1
                  /\ UNCHANGED <<pc, error, raisedAt, returned>>
    /\ UNCHANGED <<site, start_date, end_date, delivered_orders, inputs, carbon_costs,
                   metrics, last_call, last_query, floats>>

\* the loop of line 139 ends; total production, the date conversion and the
\* return, lines 153-160, and the assignment of line 184
FinishOn(db) ==
    /\ pc = "costs"
    /\ i > Len(carbon_costs)
    /\ \E raw \in SeqsUpTo(BiocharProd(db, start_date[1], end_date[1]), MaxProd) :
          LET total_biochar_prod ==
                  TotalProd(QueryProd(raw, start_date[1], end_date[1]))
          IN /\ last_query' = Read(CollectionPath(Prefix, "biochar-prod"), raw)
             /\ IF total_biochar_prod = None
                THEN /\ Raise(Step(Some(TypeError), 157, carbon_retired,
                                   carbon_released, tons_co2, formulation_cache,
                                   customer_cache, supplier_cache),
                              "production", 0)
                     /\ UNCHANGED <<carbon_retired, carbon_released>>
                ELSE /\ carbon_released' = ConvertDates(carbon_released)
                     /\ carbon_retired' = ConvertDates(carbon_retired)
                     /\ returned' = Some([carbon_retired |-> carbon_retired',
                                          carbon_released |-> carbon_released',
                                          total_biochar_prod |-> total_biochar_prod[1]])
                     /\ pc' = "returned"
                     /\ UNCHANGED <<i, error, raisedAt>>
    /\ UNCHANGED <<site, start_date, end_date, delivered_orders, inputs, carbon_costs,
                   tons_co2, formulation_cache, customer_cache, supplier_cache,
                   metrics, last_call, floats>>

\* the rest of the submit handler, lines 185-195
Summarize ==
    /\ pc = "returned"
    /\ metrics' = Some(Summary(returned[1].carbon_retired, returned[1].carbon_released))
    /\ pc' = "done"
    /\ UNCHANGED <<site, start_date, end_date, delivered_orders, inputs, carbon_costs,
                   i, carbon_retired, carbon_released, tons_co2, formulation_cache,
                   customer_cache, supplier_cache, error, raisedAt, returned,
                   last_call, last_query, floats>>

\* Any later interaction: Streamlit runs the script again from the top, which
\* binds the caches to {} again (lines 26, 35, 45) and shows the form.
Rerun ==
    /\ pc \in {"done", "failed"}
    /\ pc' = "idle"
    /\ site' = None
    /\ start_date' = None
    /\ end_date' = None
    /\ delivered_orders' = << >>
    /\ inputs' = << >>
    /\ carbon_costs' = << >>
    /\ i' = 1
    /\ carbon_retired' = << >>
    /\ carbon_released' = << >>
    /\ tons_co2' = None
    /\ formulation_cache' = EmptyDict
    /\ customer_cache' = EmptyDict
    /\ supplier_cache' = EmptyDict
    /\ error' = None
    /\ raisedAt' = None
    /\ returned' = None
    /\ metrics' = None
    /\ last_query' = None
    /\ UNCHANGED <<last_call, floats>>

\* the script against the database of mixed records
Submit == SubmitOn("mixed")
FetchInputs == FetchInputsOn("mixed")
FetchCosts == FetchCostsOn("mixed")
Finish == FinishOn("mixed")

Next ==
    \/ Submit
    \/ Rerun
    \/ ProcessOrder
    \/ FetchInputs
    \/ ProcessInput
    \/ FetchCosts
    \/ ProcessCost
    \/ Finish
    \/ Summarize

Spec == Init /\ [][Next]_vars

\* the script against the database of dated records
SubmitDated == SubmitOn("dated")
FetchInputsDated == FetchInputsOn("dated")
FetchCostsDated == FetchCostsOn("dated")
FinishDated == FinishOn("dated")

NextDated ==
    \/ SubmitDated
    \/ Rerun
    \/ ProcessOrder
    \/ FetchInputsDated
    \/ ProcessInput
    \/ FetchCostsDated
    \/ ProcessCost
    \/ FinishDated
    \/ Summarize

SpecDated == Init /\ [][NextDated]_vars

\* the script against the database of zero distances and rates
SubmitZeros == SubmitOn("zeros")
FetchInputsZeros == FetchInputsOn("zeros")
FetchCostsZeros == FetchCostsOn("zeros")
FinishZeros == FinishOn("zeros")

NextZeros ==
    \/ SubmitZeros
    \/ Rerun
    \/ ProcessOrder
    \/ FetchInputsZeros
    \/ ProcessInput
    \/ FetchCostsZeros
    \/ ProcessCost
    \/ FinishZeros
    \/ Summarize

SpecZeros == Init /\ [][NextZeros]_vars

----------------------------------------------------------------------------
(* The resolvers called directly, in any order, in one process *)

Call(fn, prefix, id, r) ==
    [fn |-> fn, prefix |-> prefix, id |-> id, raised |-> r.raised, value |-> r.value]

CallGetFormulation ==
    /\ \E name \in FormulationNames :
          LET r == get_formulation(formulation_cache, name)
          IN /\ formulation_cache' = r.cache
             /\ last_call' = Some(Call("get_formulation", None, name, r))
    /\ UNCHANGED <<pc, site, start_date, end_date, delivered_orders, inputs,
                   carbon_costs, i, carbon_retired, carbon_released, tons_co2,
                   customer_cache, supplier_cache, error, raisedAt, returned, metrics,
                   last_query, floats>>

CallGetCustomerDistance ==
    /\ \E prefix \in Prefixes, id \in CustomerIds :
          LET r == get_customer_distance(customer_cache, prefix, id)
          IN /\ customer_cache' = r.cache
             /\ last_call' = Some(Call("get_customer_distance", Some(prefix), id, r))
    /\ UNCHANGED <<pc, site, start_date, end_date, delivered_orders, inputs,
                   carbon_costs, i, carbon_retired, carbon_released, tons_co2,
                   formulation_cache, supplier_cache, error, raisedAt, returned, metrics,
                   last_query, floats>>

CallGetSupplierDistance ==
    /\ \E prefix \in Prefixes, id \in SupplierIds :
          LET r == get_supplier_distance(supplier_cache, prefix, id)
          IN /\ supplier_cache' = r.cache
             /\ last_call' = Some(Call("get_supplier_distance", Some(prefix), id, r))
    /\ UNCHANGED <<pc, site, start_date, end_date, delivered_orders, inputs,
                   carbon_costs, i, carbon_retired, carbon_released, tons_co2,
                   formulation_cache, customer_cache, error, raisedAt, returned, metrics,
                   last_query, floats>>

NextResolver ==
    \/ CallGetFormulation
    \/ CallGetCustomerDistance
    \/ CallGetSupplierDistance

SpecResolver == Init /\ [][NextResolver]_vars

----------------------------------------------------------------------------
(* Lines 98-110 for one order, statement by statement, on Python floats *)

Quantities == {125 * k : k \in 0..MaxEighths}

FloatOrders ==
    [status : {"Delivered"}, deliveredDate : {DayStart(1)},
     productionQuantity : Quantities,
     formulation : {Ref(f) : f \in DOMAIN Formulations},
     customer : {Ref("DEC")}, vehicle : {<< >>}, isActivated : {TRUE}]

NoFloats ==
    [percent_carbon |-> None, prod_qty_biochar |-> None, tons_biochar |-> None,
     tons_carbon |-> None, tons_co2 |-> None, row |-> None]

\* an order of some site has been fetched and its iteration begins
InitFloats ==
    /\ pc = "line 101"
    /\ \E s \in SiteNames : site = Some(s)
    /\ start_date = Some(DayStart(1))
    /\ end_date = Some(DayEnd(1))
    /\ \E o \in FloatOrders : delivered_orders = WithOrderNumber(<<o>>)
    /\ inputs = << >>
    /\ carbon_costs = << >>
    /\ i = 1
    /\ carbon_retired = << >>
    /\ carbon_released = << >>
    /\ tons_co2 = None
    /\ formulation_cache = EmptyDict
    /\ customer_cache = EmptyDict
    /\ supplier_cache = EmptyDict
    /\ error = None
    /\ raisedAt = None
    /\ returned = None
    /\ metrics = None
    /\ last_call = None
    /\ last_query = None
    /\ floats = Some(NoFloats)

FloatStep(from, to, local, value) ==
    /\ pc = from
    /\ pc' = to
    /\ floats' = Some([floats[1] EXCEPT ![local] = Some(value)])
    /\ UNCHANGED <<site, start_date, end_date, delivered_orders, inputs, carbon_costs,
                   i, carbon_retired, carbon_released, tons_co2, customer_cache,
                   supplier_cache, error, raisedAt, returned, metrics, last_call,
                   last_query>>

Line101 ==
    LET f == get_formulation(formulation_cache, delivered_orders[i].formulation[1].id)
    IN /\ f.value # None
       /\ formulation_cache' = f.cache
       /\ FloatStep("line 101", "line 102", "percent_carbon",
                    FloatPercentCarbon(f.value[1]))

Line102 ==
    /\ FloatStep("line 102", "line 105", "prod_qty_biochar",
                 FloatProdQtyBiochar(delivered_orders[i], floats[1].percent_carbon[1]))
    /\ UNCHANGED formulation_cache

Line105 ==
    /\ FloatStep("line 105", "line 106", "tons_biochar",
                 FloatTonsBiochar(floats[1].prod_qty_biochar[1], SiteConstants(site[1])))
    /\ UNCHANGED formulation_cache

Line106 ==
    /\ FloatStep("line 106", "line 107", "tons_carbon",
                 FloatTonsCarbon(floats[1].tons_biochar[1], SiteConstants(site[1])))
    /\ UNCHANGED formulation_cache

Line107 ==
    /\ FloatStep("line 107", "line 108", "tons_co2",
                 FloatTonsCO2(floats[1].tons_carbon[1]))
    /\ UNCHANGED formulation_cache

\* lines 108-110: the row, when there is one
Line108 ==
    /\ pc = "line 108"
    /\ pc' = "line 111"
    /\ floats' = IF FloatPositive(floats[1].tons_co2[1])
                 THEN Some([floats[1] EXCEPT
                              !.row = Some([OrderNo |-> delivered_orders[i].orderNumber,
                                            TonsCarbon |-> floats[1].tons_carbon[1],
                                            TonsCO2eq |-> floats[1].tons_co2[1]])])
                 ELSE floats
    /\ UNCHANGED <<site, start_date, end_date, delivered_orders, inputs, carbon_costs,
                   i, carbon_retired, carbon_released, tons_co2, formulation_cache,
                   customer_cache, supplier_cache, error, raisedAt, returned, metrics,
                   last_call, last_query>>

NextFloats ==
    \/ Line101
    \/ Line102
    \/ Line105
    \/ Line106
    \/ Line107
    \/ Line108

SpecFloats == InitFloats /\ [][NextFloats]_vars

----------------------------------------------------------------------------
(* What the properties below speak about *)

Completed == pc \in {"returned", "done"}

Failed == pc = "failed"

\* the run raised at document id of the given loop
RaisedIn(phase, id) ==
    Failed /\ raisedAt # None /\ raisedAt[1].phase = phase /\ raisedAt[1].id = id

\* the orders whose iteration has begun
OrdersReached ==
    {k \in DOMAIN delivered_orders :
        \/ pc \in {"inputs", "costs", "returned", "done"}
        \/ pc = "orders" /\ k < i
        \/ Failed /\ (raisedAt[1].phase # "orders" \/ k <= i)}

\* the biomass inputs whose iteration has begun
InputsReached ==
    {k \in DOMAIN inputs :
        \/ pc \in {"costs", "returned", "done"}
        \/ pc = "inputs" /\ k < i
        \/ Failed /\ (raisedAt[1].phase \in {"costs", "production"}
                       \/ (raisedAt[1].phase = "inputs" /\ k <= i))}

\* the carbon-cost entries whose iteration has begun
CostsReached ==
    {k \in DOMAIN carbon_costs :
        \/ pc \in {"returned", "done"}
        \/ pc = "costs" /\ k < i
        \/ Failed /\ (raisedAt[1].phase = "production"
                       \/ (raisedAt[1].phase = "costs" /\ k <= i))}

\* every ledger the run holds: do_accounting's locals and what the handler received
RetiredLedgers ==
    {carbon_retired} \cup (IF returned = None THEN {} ELSE {returned[1].carbon_retired})

ReleasedLedgers ==
    {carbon_released} \cup (IF returned = None THEN {} ELSE {returned[1].carbon_released})

Rows(ledger) == {ledger[k] : k \in DOMAIN ledger}

OrderCustomer(order) == order.customer[1].id

OrderRate(order) == DictGet(GlobalConstants.transportKgCO2PerKm, RefId(order.vehicle))

FormulationResolves(order) == order.formulation[1].id \in DOMAIN Formulations

CustomerResolves(order) == OrderCustomer(order) \in DOMAIN Customers(Prefix)

IsExternalRaw(order) == ~order.isActivated /\ OrderCustomer(order) # "DEC"

MissingDataFault ==
    error # None /\ error[1].type = "ValueError"

----------------------------------------------------------------------------
(* C1: whenever a missing-transport-data or missing-supplier fault is raised,
   the run ends in an error outcome and the submit handler receives no ledger and
   no production total, and computes no metric; the rows do_accounting had
   computed before the fault are not returned. *)
C1_AllOrNothing ==
    /\ error # None => Failed
    /\ MissingDataFault => /\ Failed
                           /\ returned = None
                           /\ metrics = None
    /\ Failed => error # None /\ returned = None /\ metrics = None

\* a missing-data fault at a biomass input, after rows of both ledgers were computed
C1_Witness ==
    /\ Failed
    /\ MissingDataFault
    /\ raisedAt[1].phase = "inputs"
    /\ carbon_retired # << >>
    /\ carbon_released # << >>

----------------------------------------------------------------------------
(* C2 as stated: every in-window delivered order with isActivated = false whose
   vehicle is absent or has no rate makes the run abort with the
   missing-transport-data fault. *)
C2_Original ==
    \A k \in OrdersReached :
        LET order == delivered_orders[k]
        IN (~order.isActivated /\ OrderRate(order) = None)
           => /\ Failed
              /\ returned = None

(* C2 amended: for every in-window delivered order with isActivated = false, a
   customer other than "DEC" and a vehicle that is absent or has no rate, the run
   aborts at that order and returns nothing; the fault is the ValueError of line
   118 naming the order whenever the order's formulation and customer documents
   exist (otherwise the AttributeError of the failed lookup comes first).  No
   completed run holds such an order. *)
C2_MissingTransportAborts ==
    /\ \A k \in OrdersReached :
          LET order == delivered_orders[k]
          IN (IsExternalRaw(order) /\ OrderRate(order) = None)
             => /\ RaisedIn("orders", order.orderNumber)
                /\ returned = None
                /\ metrics = None
                /\ (FormulationResolves(order) /\ CustomerResolves(order))
                      => /\ error = Some(OrderMissingDataError(order))
                         /\ raisedAt[1].line = 118
    /\ Completed =>
          \A k \in DOMAIN delivered_orders :
             ~(IsExternalRaw(delivered_orders[k]) /\ OrderRate(delivered_orders[k]) = None)

\* the fault of line 118 for an order whose customer has a distance and whose
\* vehicle has no rate, after the order's retired row was computed
C2_Witness ==
    \E k \in OrdersReached :
        LET order == delivered_orders[k]
        IN /\ IsExternalRaw(order)
           /\ OrderRate(order) = None
           /\ error = Some(OrderMissingDataError(order))
           /\ carbon_retired # << >>
           /\ customer_cache # EmptyDict

----------------------------------------------------------------------------
(* C3: no "Raw Biochar Transport" row belongs to an activated order or to an
   order of customer "DEC", whatever its customer and vehicle data are, and no
   such order makes the transport part of its iteration (lines 113-121) raise. *)
C3_NoTransportForActivatedOrDEC ==
    /\ \A ledger \in ReleasedLedgers : \A row \in Rows(ledger) :
          row.Type = RawBiocharTransport
          => \E k \in DOMAIN delivered_orders :
                /\ delivered_orders[k].orderNumber = row.RowID
                /\ ~delivered_orders[k].isActivated
                /\ OrderCustomer(delivered_orders[k]) # "DEC"
    /\ \A k \in DOMAIN delivered_orders :
          LET order == delivered_orders[k]
          IN (RaisedIn("orders", order.orderNumber) /\ raisedAt[1].line \in {42, 118, 119})
             => IsExternalRaw(order)

\* a completed run with an activated order, or a DEC order, that has no vehicle
\* and whose customer has no document
C3_Witness ==
    /\ pc = "done"
    /\ \E k \in DOMAIN delivered_orders :
          /\ ~IsExternalRaw(delivered_orders[k])
          /\ delivered_orders[k].vehicle = << >>
          /\ ~CustomerResolves(delivered_orders[k])

----------------------------------------------------------------------------
(* C4: the retired ledger holds a row for an order only if the order's computed
   tons of CO2 are above 0; an order with productionQuantity = 0 has no row. *)
C4_RetiredOnlyIfPositive ==
    /\ \A ledger \in RetiredLedgers : \A row \in Rows(ledger) :
          /\ row.TonsCO2eq > 0
          /\ \E k \in DOMAIN delivered_orders :
                /\ delivered_orders[k].orderNumber = row.OrderNo
                /\ delivered_orders[k].productionQuantity # 0
    /\ \A k \in DOMAIN delivered_orders :
          delivered_orders[k].productionQuantity = 0
          => \A ledger \in RetiredLedgers : \A row \in Rows(ledger) :
                row.OrderNo # delivered_orders[k].orderNumber

\* a completed run over an order of quantity 0: its ledger of retired carbon is empty
C4_Witness ==
    /\ pc = "done"
    /\ \E k \in DOMAIN delivered_orders : delivered_orders[k].productionQuantity = 0
    /\ returned[1].carbon_retired = << >>

----------------------------------------------------------------------------
(* C5 as stated: a carbon-cost entry whose type is neither "Electricity" nor
   "Diesel" ends the run in a fault at that entry, and no released row is emitted
   for it with a value carried over from an earlier record.  (The code defines no
   unsupported-cost-type fault; any exception raised at the entry is accepted
   here as the fault.) *)
KnownCostType(cost) == cost.type \in {"Electricity", "Diesel"}

C5_UnsupportedCostTypeFaults ==
    \A k \in CostsReached :
        LET doc == carbon_costs[k]
        IN ~KnownCostType(doc.data)
           => /\ RaisedIn("costs", doc.id)
              /\ \A ledger \in ReleasedLedgers : \A row \in Rows(ledger) :
                    row.Type # CostLabel(doc.data)

----------------------------------------------------------------------------
(* C6 as stated: the error of a run that fails on missing data names the record
   that triggered it: the order number for an order, the input id for an input. *)
C6_FaultNamesRecord ==
    MissingDataFault
    => \E n \in DOMAIN error[1].args : error[1].args[n] = raisedAt[1].id

----------------------------------------------------------------------------
(* C7: a "Biomass Transport" row is emitted for an input only if the input has a
   supplier, the supplier's distance resolves and the input's vehicle has a rate;
   an input that lacks one of the three makes the run fail at that input; and the
   fault for an absent supplier is the ValueError of line 128, which no input
   that names a supplier ever raises. *)
InputSupplierDistance(input) ==
    IF input.supplier = << >> THEN None
    ELSE LET info == ToDict(Suppliers(Prefix), input.supplier[1].id)
         IN IF info = None THEN None ELSE info[1].distance

InputRate(input) == DictGet(GlobalConstants.transportKgCO2PerKm, RefId(input.vehicle))

C7_BiomassTransportNeedsAllThree ==
    /\ \A ledger \in ReleasedLedgers : \A row \in Rows(ledger) :
          row.Type = BiomassTransport
          => \E k \in DOMAIN inputs :
                /\ inputs[k].id = row.RowID
                /\ inputs[k].data.supplier # << >>
                /\ InputSupplierDistance(inputs[k].data) # None
                /\ InputRate(inputs[k].data) # None
    /\ \A k \in InputsReached :
          LET doc == inputs[k]
          IN /\ (\/ doc.data.supplier = << >>
                 \/ InputSupplierDistance(doc.data) = None
                 \/ InputRate(doc.data) = None)
                => RaisedIn("inputs", doc.id) /\ returned = None
             /\ RaisedIn("inputs", doc.id)
                => (doc.data.supplier = << >>
                      <=> error = Some(InputMissingSupplierError(doc.id)))
             /\ (RaisedIn("inputs", doc.id) /\ doc.data.supplier # << >>
                   /\ ToDict(Suppliers(Prefix), doc.data.supplier[1].id) # None)
                => error = Some(InputMissingDataError(doc.id))

\* the fault of line 133 for an input whose supplier exists and has no distance,
\* and whose vehicle has a rate
C7_Witness ==
    \E k \in InputsReached :
        LET doc == inputs[k]
        IN /\ RaisedIn("inputs", doc.id)
           /\ doc.data.supplier # << >>
           /\ ToDict(Suppliers(Prefix), doc.data.supplier[1].id) # None
           /\ InputSupplierDistance(doc.data) = None
           /\ InputRate(doc.data) # None
           /\ error = Some(InputMissingDataError(doc.id))

----------------------------------------------------------------------------
(* C8 as stated: no completed run holds an in-window delivered order, activated
   or not, whose formulation or customer has no document. *)
C8_Original ==
    Completed
    => \A k \in DOMAIN delivered_orders :
          FormulationResolves(delivered_orders[k]) /\ CustomerResolves(delivered_orders[k])

(* C8 amended: an in-window delivered order whose formulation has no document,
   or which is not activated, has a customer other than "DEC" and whose customer
   has no document, makes the run fail at that order with the AttributeError of
   the lookup; it is not skipped, and no completed run holds such an order. *)
C8_UnresolvedReferenceFailsFast ==
    /\ \A k \in OrdersReached :
          LET order == delivered_orders[k]
          IN (\/ ~FormulationResolves(order)
              \/ IsExternalRaw(order) /\ ~CustomerResolves(order))
             => /\ RaisedIn("orders", order.orderNumber)
                /\ error = Some(AttributeError)
                /\ returned = None
    /\ Completed =>
          \A k \in DOMAIN delivered_orders :
              /\ FormulationResolves(delivered_orders[k])
              /\ IsExternalRaw(delivered_orders[k]) => CustomerResolves(delivered_orders[k])

\* the run failed at a non-activated order of an external customer without a
\* document, after the order's retired row was computed
C8_Witness ==
    \E k \in OrdersReached :
        LET order == delivered_orders[k]
        IN /\ IsExternalRaw(order)
           /\ FormulationResolves(order)
           /\ ~CustomerResolves(order)
           /\ RaisedIn("orders", order.orderNumber)
           /\ carbon_retired # << >>

----------------------------------------------------------------------------
(* C9 as stated: every direct call of get_customer_distance(prefix, id) or
   get_supplier_distance(prefix, id) gives what the document of that id under
   that prefix's own collection gives, whatever was resolved before. *)
OwnCollection(call) ==
    IF call.fn = "get_customer_distance"
    THEN Customers(call.prefix[1]) ELSE Suppliers(call.prefix[1])

C9_ResolverReturnsOwnSiteDistance ==
    (last_call # None /\ last_call[1].fn # "get_formulation")
    => LET call == last_call[1]
           info == ToDict(OwnCollection(call), call.id)
       IN IF info = None
          THEN call.raised # None
          ELSE call.raised = None /\ call.value = info[1].distance

----------------------------------------------------------------------------
(* C10: the metrics of the submit handler are gross = the sum of the retired
   rows' tons CO2eq and net = gross minus the sum of the released rows' tons
   CO2eq, over the ledgers do_accounting returned; both are 0 for empty ledgers;
   the summary step is always taken and raises nothing. *)
RECURSIVE SumOver(_, _)
SumOver(f, S) ==
    IF S = {} THEN 0
    ELSE LET x == CHOOSE x \in S : TRUE IN f[x] + SumOver(f, S \ {x})

ColumnSum(ledger) == SumOver([k \in DOMAIN ledger |-> ledger[k].TonsCO2eq], DOMAIN ledger)

C10_SummaryIsLedgerSums ==
    /\ pc = "returned" => ENABLED Summarize
    /\ pc = "done"
       => /\ error = None
          /\ metrics # None
          /\ metrics[1].gross_carbon_offset = ColumnSum(returned[1].carbon_retired)
          /\ metrics[1].net_carbon_offset
               = ColumnSum(returned[1].carbon_retired) - ColumnSum(returned[1].carbon_released)
          /\ (returned[1].carbon_retired = << >> /\ returned[1].carbon_released = << >>)
             => metrics[1] = [gross_carbon_offset |-> 0, net_carbon_offset |-> 0]
    /\ metrics # None => pc = "done"

\* a summary over a retired row and released rows of all three kinds
C10_Witness ==
    /\ pc = "done"
    /\ Len(returned[1].carbon_retired) >= 1
    /\ Len(returned[1].carbon_released) >= 3
    /\ metrics[1].net_carbon_offset < metrics[1].gross_carbon_offset

----------------------------------------------------------------------------
(* C11: in every completed run the carbon-released ledger has exactly one row
   per transport event and per carbon-cost entry: its length is the number of
   fetched orders that are not activated and whose customer is not "DEC", plus
   the number of fetched biomass inputs, plus the number of fetched carbon-cost
   entries; and each such record has exactly one row, of its own kind, carrying
   its own id (order number, input id, cost id). *)
RowsOf(ledger, type, id) ==
    {k \in DOMAIN ledger : ledger[k].Type = type /\ ledger[k].RowID = id}

ExternalRawOrders == {k \in DOMAIN delivered_orders : IsExternalRaw(delivered_orders[k])}

C11_OneReleasedRowPerEvent ==
    Completed
    => LET released == returned[1].carbon_released
       IN /\ Len(released)
               = Cardinality(ExternalRawOrders) + Len(inputs) + Len(carbon_costs)
          /\ \A k \in ExternalRawOrders :
                Cardinality(RowsOf(released, RawBiocharTransport,
                                   delivered_orders[k].orderNumber)) = 1
          /\ \A k \in DOMAIN inputs :
                Cardinality(RowsOf(released, BiomassTransport, inputs[k].id)) = 1
          /\ \A k \in DOMAIN carbon_costs :
                Cardinality(RowsOf(released, CostLabel(carbon_costs[k].data),
                                   carbon_costs[k].id)) = 1

\* a completed run with an external order, an order that is none, a biomass
\* input and a cost entry of a type no branch handles
C11_Witness ==
    /\ Completed
    /\ ExternalRawOrders # {}
    /\ Len(inputs) >= 1
    /\ \E k \in DOMAIN carbon_costs : ~KnownCostType(carbon_costs[k].data)
    /\ Len(returned[1].carbon_released) = 3

----------------------------------------------------------------------------
(* The record a ledger row was computed from *)

OrderOf(number) == CHOOSE o \in Rows(delivered_orders) : o.orderNumber = number

InputOf(id) == CHOOSE d \in Rows(inputs) : d.id = id

CostOf(id) == CHOOSE d \in Rows(carbon_costs) : d.id = id

\* the timestamp stored on the record a released row names
ReleasedSourceDate(row) ==
    IF row.Type = RawBiocharTransport THEN OrderOf(row.RowID).deliveredDate
    ELSE IF row.Type = BiomassTransport THEN InputOf(row.RowID).data.deliveryDate
    ELSE CostOf(row.RowID).data.date

\* The calendar date of an instant in a zone fixed three hours ahead of UTC, by
\* the UTC clock: the UTC date, and the next one from 21:00:00 UTC on
DateAtUtcPlus3(dt) ==
    LET utc == Instant(dt)
    IN (utc \div 86400) + (IF utc % 86400 >= 21 * 3600 THEN 1 ELSE 0)

(* C12: in every completed run the Date of every row of both returned ledgers
   is the calendar date, in the fixed zone three hours ahead of UTC, of the
   instant stored on the row's source record: an instant at 21:00 UTC or later
   falls on the next calendar day, and the zone the timestamp was stored in
   makes no difference.  The date so obtained is a day whose GMT+3 midnight and
   23:59:59, as the submit handler builds them, enclose the instant. *)
C12_RowDatesAreGmt3Dates ==
    Completed
    => /\ \A row \in Rows(returned[1].carbon_retired) :
            LET t == OrderOf(row.OrderNo).deliveredDate
            IN /\ row.Date = DateAtUtcPlus3(t)
               /\ Instant(DayStart(row.Date)) <= Instant(t)
               /\ Instant(t) <= Instant(DayEnd(row.Date))
       /\ \A row \in Rows(returned[1].carbon_released) :
            LET t == ReleasedSourceDate(row)
            IN /\ row.Date = DateAtUtcPlus3(t)
               /\ Instant(DayStart(row.Date)) <= Instant(t)
               /\ Instant(t) <= Instant(DayEnd(row.Date))

\* a completed run with a retired row of an order delivered at 21:00:00 UTC and
\* stored on a wall clock five hours behind UTC, dated one day after the day that
\* wall clock shows, and a released row of an input delivered at 20:59:59 UTC,
\* dated with its UTC day
C12_Witness ==
    /\ Completed
    /\ \E row \in Rows(returned[1].carbon_retired) :
          LET t == OrderOf(row.OrderNo).deliveredDate
          IN /\ t.utcoffset = West
             /\ Instant(t) % 86400 = 21 * 3600
             /\ row.Date = (t.wall \div 86400) + 1
    /\ \E row \in Rows(returned[1].carbon_released) :
          /\ row.Type = BiomassTransport
          /\ Instant(ReleasedSourceDate(row)) % 86400 = 21 * 3600 - 1
          /\ row.Date = Instant(ReleasedSourceDate(row)) \div 86400

----------------------------------------------------------------------------
(* C14: every returned row derives from an in-scope record of the queried site.
   Each query keeps exactly the documents of the collection it read that are in
   scope: orders with status "Delivered" and deliveredDate in the inclusive
   window [start_date, end_date]; inputs with type "Biomass", status "Obtained"
   and deliveryDate in the window; carbon-cost entries with date in the window;
   documents dated exactly at start_date or at end_date are kept.  Retired rows
   and "Raw Biochar Transport" rows come from kept orders only, "Biomass
   Transport" rows from kept inputs only, all other rows from kept cost entries
   only.  The collections read are those under "test/mock-site" for the site
   "mock-site" and under "sites/<site>" for any other site. *)
Within(dt) ==
    Instant(start_date[1]) <= Instant(dt) /\ Instant(dt) <= Instant(end_date[1])

OrderInScope(o) == o.status = "Delivered" /\ Within(o.deliveredDate)

InputInScope(d) == d.type = "Biomass" /\ d.status = "Obtained" /\ Within(d.deliveryDate)

CostInScope(d) == Within(d.date)

SitePath(name) ==
    IF site[1] = "mock-site" THEN <<"test", "mock-site", name>>
    ELSE <<"sites", site[1], name>>

\* the collection the run has read last, by its position
CollectionReadAt ==
    CASE pc = "orders" \/ (Failed /\ raisedAt[1].phase = "orders") -> "orders"
      [] pc = "inputs" \/ (Failed /\ raisedAt[1].phase = "inputs") -> "inputs"
      [] pc = "costs" \/ (Failed /\ raisedAt[1].phase = "costs") -> "carbon-costs"
      [] OTHER -> "biochar-prod"

\* fetched holds exactly the documents of docs that are in scope, each once, under
\* its own id and in the collection's order
KeepsExactly(fetched, docs, InScope(_), Id(_), Data(_)) ==
    /\ \A j \in DOMAIN fetched :
          /\ Id(fetched[j]) \in DOMAIN docs
          /\ Data(fetched[j]) = docs[Id(fetched[j])]
          /\ InScope(docs[Id(fetched[j])])
          /\ \A j2 \in DOMAIN fetched : j < j2 => Id(fetched[j]) < Id(fetched[j2])
    /\ \A k \in DOMAIN docs :
          InScope(docs[k]) => \E j \in DOMAIN fetched : Id(fetched[j]) = k

OrderData(o) == [f \in DOMAIN o \ {"orderNumber"} |-> o[f]]

C14_RowsFromInScopeRecords ==
    pc # "idle"
    => /\ last_query[1].path = SitePath(CollectionReadAt)
       /\ CollectionReadAt = "orders"
          => KeepsExactly(delivered_orders, last_query[1].docs, OrderInScope,
                          LAMBDA o : o.orderNumber, OrderData)
       /\ CollectionReadAt = "inputs"
          => KeepsExactly(inputs, last_query[1].docs, InputInScope,
                          LAMBDA d : d.id, LAMBDA d : d.data)
       /\ CollectionReadAt = "carbon-costs"
          => KeepsExactly(carbon_costs, last_query[1].docs, CostInScope,
                          LAMBDA d : d.id, LAMBDA d : d.data)
       /\ \A ledger \in RetiredLedgers : \A row \in Rows(ledger) :
             \E o \in Rows(delivered_orders) :
                o.orderNumber = row.OrderNo /\ OrderInScope(o)
       /\ \A ledger \in ReleasedLedgers : \A row \in Rows(ledger) :
             IF row.Type = RawBiocharTransport
             THEN \E o \in Rows(delivered_orders) :
                     o.orderNumber = row.RowID /\ OrderInScope(o)
             ELSE IF row.Type = BiomassTransport
             THEN \E d \in Rows(inputs) : d.id = row.RowID /\ InputInScope(d.data)
             ELSE \E d \in Rows(carbon_costs) : d.id = row.RowID /\ CostInScope(d.data)

\* a completed run whose ledgers hold a retired row of an order delivered at the
\* first second of the window, a transport row of an input delivered at its last
\* second and a cost row, and whose last query left out a document dated one
\* second after the window
C14_Witness ==
    /\ Completed
    /\ \E row \in Rows(returned[1].carbon_retired) :
          Instant(OrderOf(row.OrderNo).deliveredDate) = Instant(start_date[1])
    /\ \E row \in Rows(returned[1].carbon_released) :
          /\ row.Type = BiomassTransport
          /\ Instant(InputOf(row.RowID).data.deliveryDate) = Instant(end_date[1])
    /\ \E row \in Rows(returned[1].carbon_released) :
          row.Type \notin {RawBiocharTransport, BiomassTransport}
    /\ last_query[1].docs # << >>
    /\ \A k \in DOMAIN last_query[1].docs :
          Instant(last_query[1].docs[k].endDate) = Instant(end_date[1]) + 1
    /\ returned[1].total_biochar_prod = 0

----------------------------------------------------------------------------
(* C15: the two transport loops treat a value of 0 differently.  An order that
   is not activated and whose customer is not "DEC", whose customer distance and
   vehicle rate both resolve to a number, one of them (or both) to 0, raises no
   fault and yields one "Raw Biochar Transport" row of 0 tons CO2eq (line 117
   tests "is None").  A biomass input whose supplier distance and vehicle rate
   both resolve to a number, one of them (or both) to 0, raises the
   missing-data fault of line 133 and the run aborts at that input, without a
   row for it (line 132 tests truthiness). *)
OrderCustomerDistance(order) ==
    LET info == ToDict(Customers(Prefix), OrderCustomer(order))
    IN IF info = None THEN None ELSE info[1].distance

OneIsZero(rate, distance) ==
    /\ rate # None
    /\ distance # None
    /\ rate[1] = 0 \/ distance[1] = 0

C15_ZeroIsDataForOrdersMissingForInputs ==
    /\ \A k \in OrdersReached :
          LET order == delivered_orders[k]
          IN (/\ IsExternalRaw(order)
              /\ FormulationResolves(order)
              /\ OneIsZero(OrderRate(order), OrderCustomerDistance(order)))
             => /\ ~RaisedIn("orders", order.orderNumber)
                /\ \E j \in DOMAIN carbon_released :
                      /\ carbon_released[j].Type = RawBiocharTransport
                      /\ carbon_released[j].RowID = order.orderNumber
                      /\ carbon_released[j].TonsCO2eq = 0
                /\ Cardinality(RowsOf(carbon_released, RawBiocharTransport,
                                      order.orderNumber)) = 1
    /\ \A k \in InputsReached :
          LET input == inputs[k].data
          IN OneIsZero(InputRate(input), InputSupplierDistance(input))
             => /\ RaisedIn("inputs", inputs[k].id)
                /\ error = Some(InputMissingDataError(inputs[k].id))
                /\ raisedAt[1].line = 133
                /\ returned = None
                /\ RowsOf(carbon_released, BiomassTransport, inputs[k].id) = {}

\* a run that kept a 0-ton transport row for an order whose customer is 0 km away
\* and then aborted at an input whose vehicle has the rate 0
C15_Witness ==
    /\ Failed
    /\ \E k \in DOMAIN delivered_orders :
          /\ OrderCustomerDistance(delivered_orders[k]) = Some(0)
          /\ \E j \in DOMAIN carbon_released :
                /\ carbon_released[j].RowID = delivered_orders[k].orderNumber
                /\ carbon_released[j].Type = RawBiocharTransport
                /\ carbon_released[j].TonsCO2eq = 0
    /\ \E k \in DOMAIN inputs :
          /\ RaisedIn("inputs", inputs[k].id)
          /\ InputRate(inputs[k].data) = Some(0)
          /\ InputSupplierDistance(inputs[k].data) # Some(0)

----------------------------------------------------------------------------
(* C13, as the specification states it: for every retired row, tonsCO2eq is
   tonsCarbon * 44/12 exactly, that is 12 * tonsCO2eq = 44 * tonsCarbon; for
   1000 L at 0.3, 1.2 kg/L and 0.8 the row holds 0.288 and 1.056. *)
FloatRow == floats[1].row[1]

HasFloatRow == floats # None /\ floats[1].row # None

FloatOrder == delivered_orders[1]

\* the stored decimals of the row's order and site, in tenths
Tenths ==
    [percent |-> Formulations[FloatOrder.formulation[1].id].Biochar,
     density |-> SiteConstants(site[1]).biocharDensityKgPerL,
     content |-> SiteConstants(site[1]).biocharCarbonContent]

\* quantity * percent * density * content, in millionths of a ton
MicroTons == FloatOrder.productionQuantity * Tenths.percent * Tenths.density * Tenths.content

\* the float nearest to n / 1000
FloatNearestThousandths(n) == FloatDivInt(FloatFromInt(n), 1000)

IsSpecExample ==
    /\ FloatOrder.productionQuantity = 1000
    /\ Tenths = [percent |-> 3, density |-> 12, content |-> 8]

\* |a * 2^ea - b * 2^eb| <= b * 2^(eb - bits), for naturals a, b
BigWithin(a, ea, b, eb, bits) ==
    LET low == (IF ea < eb THEN ea ELSE eb) - bits
        x == BigShl(a, ea - low)
        y == BigShl(b, eb - low)
        slack == BigShl(b, eb - bits - low)
    IN BigCmp(x, BigAdd(y, slack)) <= 0 /\ BigCmp(y, BigAdd(x, slack)) <= 0

\* 12 * tonsCO2eq = 44 * tonsCarbon, as real numbers or as Python evaluates the
\* two products
InRatio44To12(row) ==
    \/ FloatCmp(Float(BigMulLimb(row.TonsCO2eq.m, 12), row.TonsCO2eq.e),
                Float(BigMulLimb(row.TonsCarbon.m, 44), row.TonsCarbon.e)) = 0
    \/ FloatMul(FloatFromInt(12), row.TonsCO2eq) = FloatMul(FloatFromInt(44), row.TonsCarbon)

C13_Original ==
    HasFloatRow
    => /\ InRatio44To12(FloatRow)
       /\ IsSpecExample
          => /\ FloatRow.TonsCarbon = FloatNearestThousandths(288)
             /\ FloatRow.TonsCO2eq = FloatNearestThousandths(1056)

(* C13 amended: the amounts of a retired row are Python floats.  tonsCarbon is
   productionQuantity * percentCarbon * biocharDensityKgPerL / 1000 *
   biocharCarbonContent with the site's constants, and tonsCO2eq is tonsCarbon *
   44/12, each up to the rounding of binary64 arithmetic: tonsCarbon differs from
   the exact value of the formula on the stored decimals by at most one part in
   2^50, and 12 * tonsCO2eq differs from 44 * tonsCarbon by at most one part in
   2^51.  For 1000 L at 0.3, 1.2 kg/L and 0.8, tonsCarbon is the float 0.288 and
   tonsCO2eq is the float next below 1.056 (1.0559999999999998).  A row exists
   exactly when tonsCO2eq > 0. *)
C13_RetiredAmountsUpToRounding ==
    /\ HasFloatRow
       => /\ FloatPositive(FloatRow.TonsCO2eq)
          /\ FloatRow.OrderNo = FloatOrder.orderNumber
          /\ BigWithin(BigMul(FloatRow.TonsCarbon.m, BigFromInt(1000 * 1000)),
                       FloatRow.TonsCarbon.e, BigFromInt(MicroTons), 0, 50)
          /\ BigWithin(BigMulLimb(FloatRow.TonsCO2eq.m, 12), FloatRow.TonsCO2eq.e,
                       BigMulLimb(FloatRow.TonsCarbon.m, 44), FloatRow.TonsCarbon.e, 51)
          /\ IsSpecExample
             => /\ FloatRow.TonsCarbon = FloatNearestThousandths(288)
                /\ FloatRow.TonsCO2eq.e = FloatNearestThousandths(1056).e
                /\ BigAdd(FloatRow.TonsCO2eq.m, <<1>>) = FloatNearestThousandths(1056).m
    /\ pc = "line 111" => (HasFloatRow <=> FloatOrder.productionQuantity > 0)

\* the row of the specification's example, whose two amounts are not in the
\* ratio 44 : 12
C13_Witness ==
    /\ HasFloatRow
    /\ IsSpecExample
    /\ ~InRatio44To12(FloatRow)

====
